---- MODULE Spec2Model ----
(***************************************************************************)
(* A model of alexjj/sota-gm-regions:                                      *)
(*   app.py           the Streamlit dashboard (one script run per rerun)   *)
(*   summit-match.py  the nearest-neighbour join written back to the xlsx  *)
(* Python strings are sequences of one-character strings, so that sorting, *)
(* regular expressions, strip/capitalize and f-strings are computed.       *)
(***************************************************************************)
EXTENDS Integers, Sequences, FiniteSets, TLC

VARIABLES
  sota_ref, regions2,                              \* the two region derivations on one 'SOTA Ref'
  workbook, prev, tie, runs,                       \* summit-match.py
  sheet, cache, session, colour_by, out, first     \* app.py

vars == <<sota_ref, regions2, workbook, prev, tie, runs,
          sheet, cache, session, colour_by, out, first>>
regexVars == <<sota_ref, regions2>>
matchVars == <<workbook, prev, tie, runs>>
appVars == <<sheet, cache, session, colour_by, out, first>>

(***************************************************************************)
(* Text                                                                    *)
(***************************************************************************)
\* pandas' missing value (NaN / None); no Python string is equal to it
NaN == <<"NaN">>

UpperChars == <<"A","B","C","D","E","F","G","H","I","J","K","L","M",
                "N","O","P","Q","R","S","T","U","V","W","X","Y","Z">>
LowerChars == <<"a","b","c","d","e","f","g","h","i","j","k","l","m",
                "n","o","p","q","r","s","t","u","v","w","x","y","z">>
\* the characters the model uses, in code point order
AsciiOrder == <<" ", "(", ")", "-", "/", "0", "1", "2", "3">> \o UpperChars \o LowerChars

Range(f) == {f[i] : i \in DOMAIN f}
IndexOf(seq, x) == CHOOSE i \in DOMAIN seq : seq[i] = x
OrdTable == [c \in Range(AsciiOrder) |-> IndexOf(AsciiOrder, c)]
Ord(c) == OrdTable[c]
IsUpper(c) == c \in Range(UpperChars)

\* Python's str < str: lexicographic by code point, a proper prefix is smaller
RECURSIVE StrLess(_, _)
StrLess(a, b) ==
  IF b = <<>> THEN FALSE
  ELSE IF a = <<>> THEN TRUE
  ELSE IF Head(a) # Head(b) THEN Ord(Head(a)) < Ord(Head(b))
  ELSE StrLess(Tail(a), Tail(b))

\* sorted(values) of a set of distinct strings
RECURSIVE Sorted(_)
Sorted(S) ==
  IF S = {} THEN <<>>
  ELSE LET m == CHOOSE x \in S : \A y \in S \ {x} : StrLess(x, y)
       IN <<m>> \o Sorted(S \ {m})

(***************************************************************************)
(* app.py: the two derivations of a summit's original region               *)
(***************************************************************************)
SubStr(s, i, n) == SubSeq(s, i, i + n - 1)

\* r'GM/([A-Z]+)-' matched at position i: the length of the group, 0 when no match.
\* [A-Z]+ is greedy and backtracks; the group is whatever length lets '-' follow.
GmGroupLenAt(s, i) ==
  IF i + 2 <= Len(s) /\ SubStr(s, i, 3) = <<"G", "M", "/">>
  THEN LET ok == {n \in 1..(Len(s) - i - 3) :
                    /\ \A k \in 1..n : IsUpper(s[i + 2 + k])
                    /\ s[i + 3 + n] = "-"}
       IN IF ok = {} THEN 0 ELSE CHOOSE n \in ok : \A m \in ok : m <= n
  ELSE 0

\* df['SOTA Ref'].str.extract(r'GM/([A-Z]+)-'): group 1 of the leftmost match, NaN when none
StrExtractOriginalRegion(s) ==
  LET at == {i \in 1..Len(s) : GmGroupLenAt(s, i) > 0}
  IN IF at = {} THEN NaN
     ELSE LET i == CHOOSE j \in at : \A k \in at : j <= k
          IN SubStr(s, i + 3, GmGroupLenAt(s, i))

\* r"/([A-Z]{2})-" matched at position i
SlashTwoAt(s, i) ==
  /\ i + 3 <= Len(s)
  /\ s[i] = "/"
  /\ IsUpper(s[i + 1]) /\ IsUpper(s[i + 2])
  /\ s[i + 3] = "-"

\* the same search returning match.group(0), the whole match, in place of group 1
extract_sota_region_Group0(s) ==
  LET at == {i \in 1..Len(s) : SlashTwoAt(s, i)}
  IN IF at = {} THEN <<>>
     ELSE LET i == CHOOSE j \in at : \A k \in at : j <= k
          IN SubStr(s, i, 4)

\* extract_sota_region: group 1 of the leftmost match of r"/([A-Z]{2})-", "" when none
extract_sota_region(s) ==
  LET at == {i \in 1..Len(s) : SlashTwoAt(s, i)}
  IN IF at = {} THEN <<>>
     ELSE LET i == CHOOSE j \in at : \A k \in at : j <= k
          IN SubStr(s, i + 1, 2)

(***************************************************************************)
(* app.py: the script that Streamlit runs top to bottom on every rerun     *)
(***************************************************************************)
SS == <<"S", "S">>
ES == <<"E", "S">>
CS == <<"C", "S">>
SI == <<"S", "I">>
WS == <<"W", "S">>
NS == <<"N", "S">>
sota_regions == <<SS, ES, CS, SI, WS, NS>>

\* a DataFrame is a sequence of rows, a row a function from column names to cells
\* df[name] = ...: the column is added, or overwritten in place when it exists
AddCol(row, name, v) == (name :> v) @@ row
WithColumn(df, name, values) == <<>> \o [i \in DOMAIN df |-> AddCol(df[i], name, values[i])]
Column(df, name) == <<>> \o [i \in DOMAIN df |-> df[i][name]]
\* Series.dropna().unique(), as a set
Unique(series) == Range(series) \ {NaN}
\* Series.map(dict): NaN where the key is missing (a NaN key is never in the dict)
MapGet(d, k) == IF k \in DOMAIN d THEN d[k] ELSE NaN

\* pd.read_excel(..., sheet_name="byregion"): the sheet's rows as a DataFrame
ReadExcel(sh) == sh

\* load_data's body, run on a cache miss
load_data_body(sh) ==
  WithColumn(ReadExcel(sh), "Original Region",
             [i \in DOMAIN sh |-> StrExtractOriginalRegion(ReadExcel(sh)[i]["SOTA Ref"])])

\* @st.cache_data: the entry is filled on the first call and every call returns a copy of it
load_data(entry, sh) == IF entry.hit THEN entry.data ELSE load_data_body(sh)

\* a cache entry that is the very object the script then mutates (no copy on return)
CacheEntryAfterRun_Shared(data, df_end) == [hit |-> TRUE, data |-> df_end]

\* the entry when the script ends: the script worked on a copy, its columns never reach it
CacheEntryAfterRun(data, df_end) == [hit |-> TRUE, data |-> data]

\* Series.mode(): the most frequent non-null values, sorted
Mode(series) ==
  LET n(v) == Cardinality({i \in DOMAIN series : series[i] = v})
      top == {v \in Unique(series) : \A w \in Unique(series) : n(w) <= n(v)}
  IN Sorted(top)

RowsOfArea(df, area) == SelectSeq(df, LAMBDA r : r["Area"] = area)

\* the most frequent value taken from the wrong end of the sorted modes
default_value_Last(df, area) ==
  LET default == Mode(Column(RowsOfArea(df, area), "New gm region"))
  IN IF default # <<>> /\ default[Len(default)] \in Range(sota_regions)
     THEN default[Len(default)] ELSE SS

default_value(df, area) ==
  LET default == Mode(Column(RowsOfArea(df, area), "New gm region"))
  IN IF default # <<>> /\ default[1] \in Range(sota_regions) THEN default[1] ELSE SS

\* st.sidebar.selectbox(label, options, index=..., key=...): the widget's value in the
\* session state when the key has one, options[index] on its first render
selectbox(state, options, index, key) ==
  IF key \in DOMAIN state THEN state[key] ELSE options[index]

area_list(df) == Sorted(Unique(Column(df, "Area")))

\* a sidebar loop that drops the last area of the list
area_to_region_SkipLast(df, state) ==
  LET al == area_list(df)
  IN [area \in {al[i] : i \in 1..(Len(al) - 1)} |->
        selectbox(state, sota_regions, IndexOf(sota_regions, default_value(df, area)), area)]

\* the sidebar loop: one selectbox per area
area_to_region(df, state) ==
  [area \in Range(area_list(df)) |->
     selectbox(state, sota_regions, IndexOf(sota_regions, default_value(df, area)), area)]

\* plt.get_cmap("Set1", n)(i): entry i of the nine-colour Set1 palette resampled to n
\* entries, named by its place in Set1
Set1(i, n) == <<"Set1", IF n = 1 THEN 0 ELSE IF (9 * i) \div (n - 1) > 8 THEN 8 ELSE (9 * i) \div (n - 1)>>

make_color_map(values) ==
  LET unique == Sorted(values \ {NaN})
  IN [val \in Range(unique) |-> Set1(IndexOf(unique, val) - 1, Len(unique))]

\* Series.value_counts(): the number of rows per non-null value
value_counts(series) ==
  [v \in Unique(series) |-> Cardinality({i \in DOMAIN series : series[i] = v})]

\* pd.concat([...], axis=1) without fillna(0): only the regions both sides have
comparison_df_Inner(original_counts, assigned_counts) ==
  [r \in DOMAIN original_counts \cap DOMAIN assigned_counts |->
     [Original |-> original_counts[r], New |-> assigned_counts[r]]]

\* pd.concat([original_counts, assigned_counts], axis=1).fillna(0).astype(int)
comparison_df(original_counts, assigned_counts) ==
  [r \in DOMAIN original_counts \cup DOMAIN assigned_counts |->
     [Original |-> IF r \in DOMAIN original_counts THEN original_counts[r] ELSE 0,
      New |-> IF r \in DOMAIN assigned_counts THEN assigned_counts[r] ELSE 0]]

\* the DataFrame's columns in order, as df.to_csv writes them
CsvColumns ==
  <<"Area", "New gm region", "SOTA Ref", "Points", "Original Region",
    "Original SOTA region", "Assigned Region", "Color", "Original Color">>

\* to_csv's text for a cell: a missing value is written as the empty field
CsvField(v) == IF v = NaN THEN <<>> ELSE v

\* df.to_csv(index=False): the header line, then one line per row
to_csv(df) ==
  <<CsvColumns>> \o [i \in DOMAIN df |-> [k \in DOMAIN CsvColumns |-> CsvField(df[i][CsvColumns[k]])]]

\* df.groupby([col, 'Points']).size().unstack(fill_value=0): per value of col (sorted,
\* nulls dropped) the number of rows per Points value
GroupSizes(df, col) ==
  LET keys == Sorted(Unique(Column(df, col)))
      points == Range(Column(df, "Points"))
  IN <<>> \o [k \in DOMAIN keys |->
        [index |-> keys[k],
         sizes |-> [p \in points |->
                      Cardinality({i \in DOMAIN df : df[i][col] = keys[k] /\ df[i]["Points"] = p})]]]

Relabel(table, suffix) == <<>> \o [k \in DOMAIN table |-> [table[k] EXCEPT !.index = @ \o suffix]]
OriginalSuffix == <<" ", "(", "o", "r", "i", "g", "i", "n", "a", "l", ")">>
NewSuffix == <<" ", "(", "n", "e", "w", ")">>
Index(table) == {table[k].index : k \in DOMAIN table}

\* the loop over regions that builds ordered_index
RECURSIVE OrderedIndex(_, _)
OrderedIndex(regions, index) ==
  IF regions = <<>> THEN <<>>
  ELSE LET r == Head(regions)
       IN (IF r \o OriginalSuffix \in index THEN <<r \o OriginalSuffix>> ELSE <<>>)
          \o (IF r \o NewSuffix \in index THEN <<r \o NewSuffix>> ELSE <<>>)
          \o OrderedIndex(Tail(regions), index)

\* the script's regions: the sorted values of 'Original SOTA region' only
ChartRegions(df) == Sorted(Unique(Column(df, "Original SOTA region")))

\* combined.loc[ordered_index] divided by its row sums, a proportion as <<count, total>>
percent_df(combined, ordered_index) ==
  <<>> \o [k \in DOMAIN ordered_index |->
     LET row == (CHOOSE j \in DOMAIN combined : combined[j].index = ordered_index[k])
         RECURSIVE Sum(_)
         Sum(P) == IF P = {} THEN 0
                   ELSE LET p == CHOOSE q \in P : TRUE IN combined[row].sizes[p] + Sum(P \ {p})
     IN [index |-> ordered_index[k],
         sizes |-> [p \in DOMAIN combined[row].sizes |->
                      <<combined[row].sizes[p], Sum(DOMAIN combined[row].sizes)>>]]]

\* The script's sections, last to first; each takes what the lines above it computed.

\* lines 136-156: the proportional chart
ChartSection(df26, a2r, color_map, df65, df125, combined) ==
  LET ordered_index == OrderedIndex(ChartRegions(df125), Index(combined))
  IN [area_list |-> area_list(df26),
      defaults |-> [area \in Range(area_list(df26)) |-> default_value(df26, area)],
      area_to_region |-> a2r,
      color_map |-> color_map,
      map_layer |-> df65,
      comparison_df |-> comparison_df(value_counts(Column(df65, "Original Region")),
                                      value_counts(Column(df65, "Assigned Region"))),
      df |-> df125,
      csv |-> to_csv(df125),
      ordered_index |-> ordered_index,
      percent_df |-> percent_df(combined, ordered_index)]

\* lines 137-144: original, new and combined
GroupSection(df26, a2r, color_map, df65, df125) ==
  ChartSection(df26, a2r, color_map, df65, df125,
               Relabel(GroupSizes(df125, "Original SOTA region"), OriginalSuffix)
               \o Relabel(GroupSizes(df125, "New gm region"), NewSuffix))

\* the script without line 125: the CSV and the chart get the spreadsheet's column
ExportSection_NoOverwrite(df26, a2r, color_map, df65) ==
  GroupSection(df26, a2r, color_map, df65, df65)

\* line 125: 'New gm region' is overwritten with the sidebar's assignment
ExportSection(df26, a2r, color_map, df65) ==
  GroupSection(df26, a2r, color_map, df65,
               WithColumn(df65, "New gm region",
                          [i \in DOMAIN df65 |-> MapGet(a2r, df65[i]["Area"])]))

\* lines 64-65: 'Color' from the column named by 'Colour markers by', 'Original Color'
ColourSection(df26, a2r, colour, df51, color_map) ==
  ExportSection(df26, a2r, color_map,
                WithColumn(WithColumn(df51, "Color",
                                      [i \in DOMAIN df51 |-> MapGet(color_map, df51[i][colour])]),
                           "Original Color",
                           [i \in DOMAIN df51 |-> MapGet(color_map, df51[i]["Original Region"])]))

\* lines 60-61: the shared colour map
ColourMapSection(df26, a2r, colour, df51) ==
  ColourSection(df26, a2r, colour, df51,
                make_color_map(Unique(Column(df51, "Original Region")
                                      \o Column(df51, "Assigned Region")
                                      \o Column(df51, colour))))

\* line 51: df['Assigned Region'] = df['Area'].map(area_to_region)
AssignSection(df26, a2r, colour) ==
  ColourMapSection(df26, a2r, colour,
                   WithColumn(df26, "Assigned Region",
                              [i \in DOMAIN df26 |-> MapGet(a2r, df26[i]["Area"])]))

\* lines 33-48: the sidebar
SidebarSection(df26, state, colour) == AssignSection(df26, area_to_region(df26, state), colour)

\* One run of the script: everything it computes from the loaded frame, the session
\* state of the sidebar widgets and the 'Colour markers by' choice
Script(loaded, state, colour) ==
  SidebarSection(WithColumn(loaded, "Original SOTA region",
                            [i \in DOMAIN loaded |-> extract_sota_region(loaded[i]["SOTA Ref"])]),
                 state, colour)

(***************************************************************************)
(* The derivations applied to one reference string                         *)
(***************************************************************************)
MaxRefLen == 6
RefChars == {"G", "M", "/", "-", "1"}
RefStrings == UNION {[1..n -> RefChars] : n \in 0..MaxRefLen}

\* the two scripts and the single-reference derivation are separate programs: each
\* specification holds the variables of the other two still
RegexIdle == sota_ref = <<>> /\ regions2 = [done |-> FALSE, Original_Region |-> NaN, Original_SOTA_region |-> NaN]
MatchIdle == workbook = <<>> /\ prev = <<>> /\ tie = 0 /\ runs = 0
AppIdle == sheet = <<>> /\ cache = <<>> /\ session = <<>> /\ colour_by = "Area" /\ out = <<>> /\ first = <<>>

RegexInit ==
  /\ sota_ref \in RefStrings
  /\ regions2 = [done |-> FALSE, Original_Region |-> NaN, Original_SOTA_region |-> NaN]
  /\ MatchIdle /\ AppIdle

\* app.py lines 16 and 26 on one row
DeriveRegions ==
  /\ ~regions2.done
  /\ regions2' = [done |-> TRUE,
                  Original_Region |-> StrExtractOriginalRegion(sota_ref),
                  Original_SOTA_region |-> extract_sota_region(sota_ref)]
  /\ UNCHANGED <<sota_ref, matchVars, appVars>>

RegexNext == DeriveRegions
SpecRegex == RegexInit /\ [][RegexNext]_vars

\* the two columns denote the same region: equal strings, or NaN beside ""
SameRegion(a, b) == IF a = NaN THEN b = <<>> ELSE a = b

\* a reference of the form GM/XX-..., XX two capital letters, or one with no '/' at all
GmTwoLetterRef(s) ==
  /\ Len(s) >= 6
  /\ SubStr(s, 1, 3) = <<"G", "M", "/">>
  /\ IsUpper(s[4]) /\ IsUpper(s[5])
  /\ s[6] = "-"
NoSlash(s) == \A i \in DOMAIN s : s[i] # "/"

\* C10 (as stated): for every 'SOTA Ref' string the 'Original Region' of load_data and
\* the 'Original SOTA region' of extract_sota_region are the same region, NaN and ""
\* both meaning no region.
C10_DerivationsAgree ==
  regions2.done => SameRegion(regions2.Original_Region, regions2.Original_SOTA_region)

\* C10 (amended): the two derivations agree on every reference that starts with GM/,
\* two capital letters and '-', and on every reference that holds no '/'.
C10_AgreeOnGmTwoLetterRefs ==
  (regions2.done /\ (GmTwoLetterRef(sota_ref) \/ NoSlash(sota_ref)))
     => SameRegion(regions2.Original_Region, regions2.Original_SOTA_region)

C10_Witness ==
  /\ regions2.done
  /\ GmTwoLetterRef(sota_ref)
  /\ regions2.Original_Region = <<"G", "M">>
  /\ regions2.Original_SOTA_region = <<"G", "M">>

(***************************************************************************)
(* The dashboard: the spreadsheet, the cached load, the widgets' state     *)
(***************************************************************************)
MaxRows == 2

Row(area, new_gm_region, ref, points) ==
  [c \in {"Area", "New gm region", "SOTA Ref", "Points"} |->
     CASE c = "Area" -> area
       [] c = "New gm region" -> new_gm_region
       [] c = "SOTA Ref" -> ref
       [] c = "Points" -> points]

Area01A == <<"0", "1", "A">>
Area01B == <<"0", "1", "B">>
GM_SS_1 == <<"G", "M", "/", "S", "S", "-", "0", "0", "1">>
GM_NS_2 == <<"G", "M", "/", "N", "S", "-", "0", "0", "2">>
GM_WS_3 == <<"G", "M", "/", "W", "S", "-", "0", "0", "3">>
AA == <<"A", "A">>

\* the rows a 'byregion' sheet is made of: two areas and a row with no area; valid,
\* unknown and missing 'New gm region' values; three original regions
SheetRows ==
  { Row(Area01A, SS, GM_SS_1, <<"1">>),
    Row(Area01A, NS, GM_NS_2, <<"2">>),
    Row(Area01B, AA, GM_SS_1, <<"1">>),
    Row(Area01B, NaN, GM_NS_2, <<"2">>),
    Row(Area01B, NS, GM_WS_3, <<"1">>),
    Row(NaN, SS, GM_WS_3, <<"2">>) }
Sheets == UNION {[1..n -> SheetRows] : n \in 1..MaxRows}
ColourByOptions == {"Area", "New gm region"}

AppInit ==
  /\ sheet \in Sheets
  /\ cache = [hit |-> FALSE, data |-> <<>>]
  /\ session = <<>>
  /\ colour_by = "Area"
  /\ out = <<>>
  /\ first = <<>>
  /\ RegexIdle /\ MatchIdle

\* a script run under the given widget state
RunScript(state, colour) ==
  \E loaded \in {load_data(cache, sheet)} : \E result \in {Script(loaded, state, colour)} :
     /\ out' = result
     /\ session' = result.area_to_region
     /\ colour_by' = colour
     /\ cache' = CacheEntryAfterRun(loaded, result.df)
     /\ first' = IF cache.hit THEN first
                 ELSE [session |-> result.area_to_region, colour_by |-> colour, out |-> result]
     /\ UNCHANGED <<sheet, regexVars, matchVars>>

\* the page is opened: the first run, every widget at its default
OpenPage == ~cache.hit /\ RunScript(session, colour_by)

\* the user picks a region in one area's selectbox: the script reruns
SelectRegion(area, region) ==
  /\ cache.hit
  /\ area \in DOMAIN session
  /\ region # session[area]
  /\ RunScript([session EXCEPT ![area] = region], colour_by)

\* the user changes 'Colour markers by': the script reruns
SelectColourBy(colour) == cache.hit /\ colour # colour_by /\ RunScript(session, colour)

Next ==
  \/ OpenPage
  \/ \E area \in {Area01A, Area01B}, region \in Range(sota_regions) : SelectRegion(area, region)
  \/ \E colour \in ColourByOptions : SelectColourBy(colour)

Spec == AppInit /\ [][Next]_vars

(***************************************************************************)
(* summit-match.py                                                         *)
(***************************************************************************)
Upper(c) == IF c \in Range(LowerChars) THEN UpperChars[IndexOf(LowerChars, c)] ELSE c
Lower(c) == IF c \in Range(UpperChars) THEN LowerChars[IndexOf(UpperChars, c)] ELSE c

\* str.strip(): leading and trailing blanks removed
RECURSIVE Strip(_)
Strip(x) ==
  IF x = <<>> THEN x
  ELSE IF Head(x) = " " THEN Strip(Tail(x))
  ELSE IF x[Len(x)] = " " THEN Strip(SubSeq(x, 1, Len(x) - 1))
  ELSE x

\* str.capitalize(): the first character upper-cased, every other one lower-cased
Capitalize(x) ==
  IF x = <<>> THEN x
  ELSE <<Upper(x[1])>> \o [i \in 1..(Len(x) - 1) |-> Lower(x[i + 1])]

\* the lambda of lines 11-12
RenameColumn(x) == Capitalize(Strip(x))

\* a sheet is its column names and its rows, a row one cell per column
\* pd.read_excel: a repeated column name X is read as X.1, X.2, ...
read_excel(sh) ==
  [sh EXCEPT !.columns = <<>> \o
     [i \in DOMAIN @ |->
        LET k == Cardinality({j \in 1..(i - 1) : @[j] = @[i]})
        IN IF k = 0 THEN @[i] ELSE @[i] \o <<".", <<"0", "1", "2", "3">>[k + 1]>>]]

rename(df) == [df EXCEPT !.columns = <<>> \o [i \in DOMAIN @ |-> RenameColumn(@[i])]]

ColumnAt(df, name) == CHOOSE i \in DOMAIN df.columns : df.columns[i] = name

Latitude == <<"L", "a", "t", "i", "t", "u", "d", "e">>
Longitude == <<"L", "o", "n", "g", "i", "t", "u", "d", "e">>
Summitcode == <<"S", "u", "m", "m", "i", "t", "c", "o", "d", "e">>
SOTA_Ref == <<"S", "O", "T", "A", " ", "R", "e", "f">>

\* df[['Latitude', 'Longitude']].to_numpy()
LatLon(df) ==
  <<>> \o [i \in DOMAIN df.rows |-> <<df.rows[i][ColumnAt(df, Latitude)], df.rows[i][ColumnAt(df, Longitude)]>>]

\* the square of the Euclidean distance, which orders points as the distance does
Distance2(p, q) == (p[1] - q[1]) * (p[1] - q[1]) + (p[2] - q[2]) * (p[2] - q[2])

\* a query that measures along the latitude only
Nearest_LatitudeOnly(points, p, t) ==
  LET best == {j \in DOMAIN points :
                 \A k \in DOMAIN points :
                    (points[j][1] - p[1]) * (points[j][1] - p[1])
                      <= (points[k][1] - p[1]) * (points[k][1] - p[1])}
  IN CHOOSE j \in best : \A k \in best : (j + t) % Len(points) <= (k + t) % Len(points)

\* cKDTree(points).query(p, k=1): the position of a point at the least distance. Which
\* one of several equally near points is returned is the library's choice, the same on
\* every run: t is that choice.
Nearest(points, p, t) ==
  LET best == {j \in DOMAIN points :
                 \A k \in DOMAIN points : Distance2(points[j], p) <= Distance2(points[k], p)}
  IN CHOOSE j \in best : \A k \in best : (j + t) % Len(points) <= (k + t) % Len(points)

\* df[name] = values: the column is overwritten where it exists, appended otherwise
SetColumn(df, name, values) ==
  IF name \in Range(df.columns)
  THEN [df EXCEPT !.rows = <<>> \o [i \in DOMAIN @ |->
                              <<>> \o [c \in DOMAIN @[i] |-> IF df.columns[c] = name THEN values[i] ELSE @[i][c]]]]
  ELSE [columns |-> Append(df.columns, name),
        rows |-> <<>> \o [i \in DOMAIN df.rows |-> Append(df.rows[i], values[i])]]

\* lines 7-25: the 'byregion' frame the script ends up with
MatchedByregion(book, t) ==
  LET byregion == rename(read_excel(book.byregion))
      gm_sota == rename(read_excel(book.gm_sota))
      sota_latlon == LatLon(gm_sota)
      by_latlon == LatLon(byregion)
      indices == <<>> \o [i \in DOMAIN by_latlon |-> Nearest(sota_latlon, by_latlon[i], t)]
  IN SetColumn(byregion, SOTA_Ref,
               [i \in DOMAIN indices |-> gm_sota.rows[indices[i]][ColumnAt(gm_sota, Summitcode)]])

\* lines 28-29: ExcelWriter(mode='a', if_sheet_exists='replace') swaps the one sheet
WriteByregion(book, df) == [book EXCEPT !.byregion = df]

MaxBy == 2
MaxGm == 2
MaxRuns == 2

\* coordinates on a small grid, with equally near and unequally near pairs
Coords == {<<0, 0>>, <<0, 2>>, <<1, 0>>, <<1, 1>>}
HillName == <<"H", "i", "l", "l", " ", "n", "a", "m", "e">>
\* the sheet before its first match, and the sheet app.py reads, 'SOTA Ref' included
ByregionColumns ==
  { <<HillName, Latitude, Longitude>>,
    <<HillName, Latitude, Longitude, SOTA_Ref>> }
GmSotaColumns == <<<<"S", "u", "m", "m", "i", "t", "C", "o", "d", "e">>, Latitude, Longitude>>
SummitCodes ==
  << <<"G", "M", "/", "S", "S", "-", "0", "0", "1">>,
     <<"G", "M", "/", "N", "S", "-", "0", "0", "2">>,
     <<"G", "M", "/", "W", "S", "-", "0", "0", "3">>,
     <<"G", "M", "/", "C", "S", "-", "0", "0", "4">> >>

\* the workbooks the script is run on: both sheets hold at least one row
Workbooks ==
  {[byregion |-> [columns |-> cols,
                  rows |-> [i \in DOMAIN by |->
                              IF Len(cols) = 3 THEN <<<<"h">>, by[i][1], by[i][2]>>
                              ELSE <<<<"h">>, by[i][1], by[i][2], SummitCodes[4]>>]],
    gm_sota |-> [columns |-> GmSotaColumns,
                 rows |-> [j \in DOMAIN gm |-> <<SummitCodes[j], gm[j][1], gm[j][2]>>]]] :
     cols \in ByregionColumns,
     by \in UNION {[1..n -> Coords] : n \in 1..MaxBy},
     gm \in UNION {[1..n -> Coords] : n \in 1..MaxGm}}

MatchInit ==
  /\ workbook \in Workbooks
  /\ prev = workbook
  /\ tie \in 0..(MaxGm - 1)
  /\ runs = 0
  /\ RegexIdle /\ AppIdle

\* one run of the script on the workbook as it now is
RunSummitMatch ==
  /\ runs < MaxRuns
  /\ prev' = workbook
  /\ workbook' = WriteByregion(workbook, MatchedByregion(workbook, tie))
  /\ runs' = runs + 1
  /\ UNCHANGED <<tie, regexVars, appVars>>

MatchNext == RunSummitMatch
SpecMatch == MatchInit /\ [][MatchNext]_vars

\* the cell of row i of a sheet under the (last) column of that name
Cell(sh, i, name) ==
  sh.rows[i][CHOOSE c \in DOMAIN sh.columns :
               sh.columns[c] = name /\ \A d \in DOMAIN sh.columns : sh.columns[d] = name => d <= c]
PointOf(sh, i) == <<sh.rows[i][2], sh.rows[i][3]>>

\* C1: after a run, the 'SOTA Ref' of every byregion row is the Summitcode of a gm-sota
\* row whose point is at the least Euclidean distance from the row's point.
C1_SotaRefIsNearestSummit ==
  runs >= 1 =>
     /\ Len(workbook.byregion.rows) = Len(prev.byregion.rows)
     /\ \A i \in DOMAIN workbook.byregion.rows :
          \E j \in DOMAIN workbook.gm_sota.rows :
             /\ Cell(workbook.byregion, i, SOTA_Ref) = workbook.gm_sota.rows[j][1]
             /\ \A k \in DOMAIN workbook.gm_sota.rows :
                  Distance2(PointOf(workbook.gm_sota, j), PointOf(workbook.byregion, i))
                    <= Distance2(PointOf(workbook.gm_sota, k), PointOf(workbook.byregion, i))

\* a row whose nearest summit is the second of two summits at different distances
C1_Witness ==
  /\ runs >= 1
  /\ Len(workbook.gm_sota.rows) = 2
  /\ \E i \in DOMAIN workbook.byregion.rows :
       /\ Cell(workbook.byregion, i, SOTA_Ref) = SummitCodes[2]
       /\ Distance2(PointOf(workbook.gm_sota, 2), PointOf(workbook.byregion, i))
            < Distance2(PointOf(workbook.gm_sota, 1), PointOf(workbook.byregion, i))

\* C5: a run replaces the 'byregion' sheet only; the rewritten sheet has the same rows
\* in the same order and the columns it had, under the names they had, plus 'SOTA Ref';
\* a second run on that output yields the same sheet.
C5_OnlySotaRefAdded ==
  runs >= 1 =>
     /\ workbook.gm_sota = prev.gm_sota
     /\ Len(workbook.byregion.rows) = Len(prev.byregion.rows)
     /\ \A i \in DOMAIN prev.byregion.rows :
          SubSeq(workbook.byregion.rows[i], 1, 3) = SubSeq(prev.byregion.rows[i], 1, 3)
     /\ workbook.byregion.columns
          = SelectSeq(prev.byregion.columns, LAMBDA x : x # SOTA_Ref) \o <<SOTA_Ref>>
     /\ runs >= 2 => workbook.byregion = prev.byregion

(***************************************************************************)
(* Properties of the dashboard                                             *)
(***************************************************************************)
Rows == DOMAIN sheet
HasArea(i) == sheet[i]["Area"] # NaN
Areas == {sheet[i]["Area"] : i \in Rows} \ {NaN}
UserChanged == session # first.session
RECURSIVE SumOver(_, _)
SumOver(f, S) == IF S = {} THEN 0 ELSE LET x == CHOOSE y \in S : TRUE IN f[x] + SumOver(f, S \ {x})

\* C2: whenever 'Colour markers by' is 'New gm region', every summit's marker colour is
\* the colour the shared colour map gives to the region selected in the sidebar for the
\* summit's Area.
C2_MarkersShowSelectedRegion ==
  (cache.hit /\ colour_by = "New gm region") =>
     \A i \in Rows : HasArea(i) =>
        out.map_layer[i]["Color"] = MapGet(out.color_map, session[sheet[i]["Area"]])

\* C3: the CSV has a header and exactly one line per loaded row, in row order, and in
\* every line with a non-null Area the 'New gm region' field is the region selected in
\* the sidebar for that Area, not the spreadsheet's value.
C3_CsvExportsSelection ==
  cache.hit =>
     /\ Len(out.csv) = Len(sheet) + 1
     /\ \A i \in Rows :
          /\ out.csv[i + 1][IndexOf(CsvColumns, "SOTA Ref")] = sheet[i]["SOTA Ref"]
          /\ HasArea(i) =>
               out.csv[i + 1][IndexOf(CsvColumns, "New gm region")] = session[sheet[i]["Area"]]

C3_Witness ==
  /\ cache.hit /\ UserChanged
  /\ \E i \in Rows :
       /\ HasArea(i)
       /\ sheet[i]["New gm region"] \in Range(sota_regions)
       /\ out.csv[i + 1][IndexOf(CsvColumns, "New gm region")] # sheet[i]["New gm region"]

\* C4: after the sidebar loop area_to_region has exactly the distinct non-null Areas as
\* keys, every value is one of the six fixed regions, and every row with a non-null
\* Area has an 'Assigned Region' among them.
C4_EveryAreaAssigned ==
  cache.hit =>
     /\ DOMAIN out.area_to_region = Areas
     /\ \A a \in Areas : out.area_to_region[a] \in {SS, ES, CS, SI, WS, NS}
     /\ \A i \in Rows : HasArea(i) => out.df[i]["Assigned Region"] \in {SS, ES, CS, SI, WS, NS}

C4_Witness ==
  /\ cache.hit /\ UserChanged
  /\ Areas = {Area01A, Area01B}
  /\ \E i \in Rows : HasArea(i) /\ out.df[i]["Assigned Region"] = CS

\* the spreadsheet's most frequent non-null 'New gm region' values of an Area
Frequency(area, v) ==
  Cardinality({i \in Rows : sheet[i]["Area"] = area /\ sheet[i]["New gm region"] = v})
MostFrequent(area) ==
  {v \in {sheet[i]["New gm region"] : i \in Rows} \ {NaN} :
     /\ Frequency(area, v) > 0
     /\ \A w \in {sheet[i]["New gm region"] : i \in Rows} \ {NaN} :
          Frequency(area, w) <= Frequency(area, v)}
ExpectedDefault(area) ==
  IF MostFrequent(area) = {} THEN SS
  ELSE LET least == CHOOSE v \in MostFrequent(area) :
                      \A w \in MostFrequent(area) : w = v \/ StrLess(v, w)
       IN IF least \in {SS, ES, CS, SI, WS, NS} THEN least ELSE SS

C7_ComparisonCounts ==
  cache.hit =>
     LET originals == {out.df[i]["Original Region"] : i \in Rows} \ {NaN}
         assigned == {out.df[i]["Assigned Region"] : i \in Rows} \ {NaN}
         table == out.comparison_df
     IN /\ DOMAIN table = originals \cup assigned
        /\ \A r \in DOMAIN table :
             /\ table[r].Original = Cardinality({i \in Rows : out.df[i]["Original Region"] = r})
             /\ table[r].New = Cardinality({i \in Rows : out.df[i]["Assigned Region"] = r})
        /\ SumOver([r \in DOMAIN table |-> table[r].New], DOMAIN table)
             = Cardinality({i \in Rows : HasArea(i)})

C7_Witness ==
  /\ cache.hit /\ UserChanged
  /\ \E r \in DOMAIN out.comparison_df :
       out.comparison_df[r].Original = 0 /\ out.comparison_df[r].New = 2
  /\ \E r \in DOMAIN out.comparison_df :
       out.comparison_df[r].Original > 0 /\ out.comparison_df[r].New = 0

\* C8: the proportional chart's bars are ordered by region, each region's '(original)'
\* bar directly before its '(new)' bar; there is an '(original)' bar for every region
\* with a summit by Original SOTA region and a '(new)' bar for every region with a
\* summit assigned to it in the sidebar.
C8_ChartShowsEveryRegion ==
  cache.hit =>
     LET bars == out.ordered_index
         originals == {extract_sota_region(sheet[i]["SOTA Ref"]) : i \in Rows}
         assigned == {session[sheet[i]["Area"]] : i \in {j \in Rows : HasArea(j)}}
     IN /\ \A r \in originals : r \o OriginalSuffix \in Range(bars)
        /\ \A r \in assigned : r \o NewSuffix \in Range(bars)
        /\ \A k \in DOMAIN bars : \A r \in originals \cup assigned :
             (bars[k] = r \o NewSuffix /\ r \in originals) => bars[k - 1] = r \o OriginalSuffix

\* C9: a run leaves the cached frame as load_data made it from the spreadsheet, so the
\* defaults are those of the spreadsheet's own 'New gm region'; 'Assigned Region', the
\* comparison counts and the CSV are what the spreadsheet and the current selections
\* give, whatever was selected before, and returning to the first selections gives
\* the first run's results again.
C9_NoHistoryBetweenReruns ==
  cache.hit =>
     /\ cache.data = load_data_body(sheet)
     /\ \A a \in Areas : out.defaults[a] = ExpectedDefault(a)
     /\ LET fresh == Script(load_data_body(sheet), session, colour_by)
        IN /\ out.df = fresh.df
           /\ out.comparison_df = fresh.comparison_df
           /\ out.csv = fresh.csv
     /\ (session = first.session /\ colour_by = first.colour_by) => out = first.out

\* some area's spreadsheet value has been overwritten by another selection in this run
C9_Witness ==
  /\ cache.hit /\ UserChanged
  /\ \E i \in Rows :
       /\ HasArea(i)
       /\ sheet[i]["New gm region"] = ExpectedDefault(sheet[i]["Area"])
       /\ out.df[i]["New gm region"] # sheet[i]["New gm region"]
       /\ cache.data[i]["New gm region"] = sheet[i]["New gm region"]

====
